---- MODULE Spec2Model ----
(***************************************************************************)
(* A model of the daily-briefing agent: the ConfigManager (config.py), the *)
(* two fetcher tools and the AIDBAgent session (aidb_ai/main.py), and the  *)
(* chat loop that drives the session (aidb_tui/main.py).                   *)
(*                                                                         *)
(* Optional values (Python's `str | None`, `UserConfig | None`) are        *)
(* sequences of length 0 (None) or 1.                                      *)
(***************************************************************************)
EXTENDS Naturals, Sequences, FiniteSets

VARIABLES
    _config,         \* ConfigManager._config: <<>> (None) or <<UserConfig>>
    config_dir,      \* whether ~/.config/aidb exists
    config_file,     \* ~/.config/aidb/config.toml: <<>> (absent) or <<content>>
    lastOp,          \* the last Config Store operation: its name, argument, outcome
    environ,         \* os.environ, the two API keys
    message_history, \* AIDBAgent.message_history
    turns,           \* the request_async coroutines of the session, by turn number
    overlapped,      \* whether two turns of the session were ever in flight together
    lastCall         \* the last fetcher invocation: its inputs, its GETs, its result

vars == <<_config, config_dir, config_file, lastOp, environ, message_history,
          turns, overlapped, lastCall>>

None == <<>>
Some(v) == <<v>>

----------------------------------------------------------------------------
(* Bounds *)

MaxTurns == 2
MaxToolCalls == 1
MaxArticles == 6

----------------------------------------------------------------------------
(* config.py: the config file as TOML text, one key/value line per entry *)

ZipCodes == {"", "10001", "90210"}

Line(k, t, v) == [key |-> k, type |-> t, val |-> v]
ZipLine(z) == Line("zip_code", "str", z)
IntZipLine == Line("zip_code", "int", "90210")
OtherLine == Line("theme", "str", "dark")
MalformedLine == Line("", "malformed", "zip_code = ")

\* The contents another writer (an editor, another process) may leave in the file.
FileContents ==
    {<<>>, <<MalformedLine>>, <<IntZipLine>>, <<OtherLine>>,
     <<ZipLine("10001"), ZipLine("90210")>>}
    \cup {<<ZipLine(z)>> : z \in ZipCodes}
    \cup {<<OtherLine, ZipLine(z)>> : z \in {"10001"}}

\* class UserConfig: zip_code: str | None = None
UserConfig(zip) == [zip_code |-> zip]
DefaultConfig == UserConfig(None)

\* tomllib.load: a malformed line or a key defined twice is a TOMLDecodeError,
\* otherwise the dict of the file's keys.
tomllib_load(content) ==
    LET bad == \/ \E i \in DOMAIN content : content[i].type = "malformed"
               \/ \E i, j \in DOMAIN content :
                      i # j /\ content[i].key = content[j].key
        keys == {content[i].key : i \in DOMAIN content}
        at(k) == CHOOSE i \in DOMAIN content : content[i].key = k
    IN  IF bad THEN [ok |-> FALSE, data |-> [k \in {} |-> Line("", "", "")]]
        ELSE [ok |-> TRUE, data |-> [k \in keys |-> content[at(k)]]]

\* UserConfig(**config_data): unknown keys are ignored, a zip_code that is not a
\* string is a ValidationError (a ValueError).
ValidateConfig(data) ==
    IF "zip_code" \notin DOMAIN data
    THEN [ok |-> TRUE, config |-> DefaultConfig]
    ELSE IF data["zip_code"].type = "str"
         THEN [ok |-> TRUE, config |-> UserConfig(Some(data["zip_code"].val))]
         ELSE [ok |-> FALSE, config |-> DefaultConfig]

\* ReadConfigFile with a fault: a corrupted file is an error to the caller.
ReadConfigFileRaising(file) ==
    IF file = None THEN [raised |-> FALSE, config |-> DefaultConfig]
    ELSE LET parsed == tomllib_load(file[1])
             valid == ValidateConfig(parsed.data)
         IN  IF parsed.ok /\ valid.ok
             THEN [raised |-> FALSE, config |-> valid.config]
             ELSE [raised |-> TRUE, config |-> DefaultConfig]

\* load_config with no cached value: what the file yields.
ReadConfigFile(file) ==
    IF file = None THEN [raised |-> FALSE, config |-> DefaultConfig]
    ELSE LET parsed == tomllib_load(file[1])
             valid == ValidateConfig(parsed.data)
         IN  IF parsed.ok /\ valid.ok
             THEN [raised |-> FALSE, config |-> valid.config]
             ELSE [raised |-> FALSE, config |-> DefaultConfig]

\* load_config with a fault: no cache, the file read on every call.
load_config_rereads(cache, file) ==
    IF file = None THEN [raised |-> FALSE, config |-> DefaultConfig]
    ELSE LET parsed == tomllib_load(file[1])
             valid == ValidateConfig(parsed.data)
         IN  IF parsed.ok /\ valid.ok
             THEN [raised |-> FALSE, config |-> valid.config]
             ELSE [raised |-> FALSE, config |-> DefaultConfig]

\* load_config: the cached value when there is one, else the file's.
load_config(cache, file) ==
    IF cache # None THEN [raised |-> FALSE, config |-> cache[1]]
    ELSE ReadConfigFile(file)

\* model_dump with a fault: empty strings dropped with the Nones.
model_dump_drops_empty(config) ==
    IF config.zip_code = None \/ config.zip_code = Some("")
    THEN [k \in {} |-> Line("", "", "")]
    ELSE [k \in {"zip_code"} |-> ZipLine(config.zip_code[1])]

\* self._config.model_dump(exclude_none=True)
model_dump(config) ==
    IF config.zip_code = None THEN [k \in {} |-> Line("", "", "")]
    ELSE [k \in {"zip_code"} |-> ZipLine(config.zip_code[1])]

\* tomli_w.dump: one line per key of the dict.
tomli_w_dump(data) ==
    IF "zip_code" \in DOMAIN data THEN <<data["zip_code"]>> ELSE <<>>

\* How the file write of save_config can end: done, or an OSError from mkdir,
\* from open, or while writing after open("wb") has truncated the file.
SaveOutcomes == {"ok", "mkdir_error", "open_error", "write_error"}

\* What a write that fails part-way can leave of `content` in the file.
PartialContents(content) ==
    {<<>>} \cup (IF content = <<>> THEN {} ELSE {<<MalformedLine>>})

\* save_config, lines 67-73, of `config`: the directory and file afterwards.
WriteConfig(config, dir, file, outcome, partial) ==
    LET content == tomli_w_dump(model_dump(config))
    IN  CASE outcome = "ok" ->
               [raised |-> FALSE, dir |-> TRUE, file |-> Some(content)]
          [] outcome = "mkdir_error" ->
               [raised |-> TRUE, dir |-> dir, file |-> file]
          [] outcome = "open_error" ->
               [raised |-> TRUE, dir |-> TRUE, file |-> file]
          [] outcome = "write_error" ->
               [raised |-> TRUE, dir |-> TRUE, file |-> Some(partial)]

\* One Config Store call: `cached` says whether _config was set when it began.
Op(name, arg, cached, raised, ret) ==
    [op |-> name, arg |-> arg, cached |-> cached, raised |-> raised, ret |-> ret]

----------------------------------------------------------------------------
(* config.py: the operations of one ConfigManager *)

SessionVars == <<environ, message_history, turns, overlapped, lastCall>>

\* ConfigManager.__init__ of a new process: nothing cached, the disk as it is.
NewConfigManager ==
    /\ _config' = None
    /\ lastOp' = Op("__init__", None, FALSE, FALSE, None)
    /\ UNCHANGED <<config_dir, config_file, SessionVars>>

LoadConfig ==
    LET r == load_config(_config, config_file)
    IN  /\ _config' = IF r.raised THEN _config ELSE Some(r.config)
        /\ lastOp' = Op("load_config", None, _config # None, r.raised, r.config)
        /\ UNCHANGED <<config_dir, config_file, SessionVars>>

GetZipCode ==
    LET r == load_config(_config, config_file)
    IN  /\ _config' = IF r.raised THEN _config ELSE Some(r.config)
        /\ lastOp' = Op("get_zip_code", None, _config # None, r.raised, r.config.zip_code)
        /\ UNCHANGED <<config_dir, config_file, SessionVars>>

\* needs_zip_code with a fault: `not self.get_zip_code()`, an empty zip code
\* taken for none.
needs_zip_code_falsy(zip) == zip = None \/ zip = Some("")

\* line 89: `return self.get_zip_code() is None`
needs_zip_code(zip) == zip = None

NeedsZipCode ==
    LET r == load_config(_config, config_file)
    IN  /\ _config' = IF r.raised THEN _config ELSE Some(r.config)
        /\ lastOp' = Op("needs_zip_code", None, _config # None, r.raised,
                        needs_zip_code(r.config.zip_code))
        /\ UNCHANGED <<config_dir, config_file, SessionVars>>

\* save_config(config): `config` is None or a UserConfig.
SaveConfig(config, outcome, partial) ==
    LET cache == IF config # None THEN config ELSE _config
    IN  /\ _config' = cache
        /\ IF cache = None
           THEN /\ lastOp' = Op("save_config", None, FALSE, FALSE, None)
                /\ UNCHANGED <<config_dir, config_file>>
           ELSE LET w == WriteConfig(cache[1], config_dir, config_file,
                                     outcome, partial)
                IN  /\ config_dir' = w.dir
                    /\ config_file' = w.file
                    /\ lastOp' = Op("save_config", cache[1].zip_code, _config # None,
                                     w.raised, None)
        /\ UNCHANGED SessionVars

UpdateZipCode(zip_code, outcome, partial) ==
    LET r == load_config(_config, config_file)
        config == [r.config EXCEPT !.zip_code = Some(zip_code)]
        w == WriteConfig(config, config_dir, config_file, outcome, partial)
    IN  /\ IF r.raised
           THEN /\ lastOp' = Op("update_zip_code", Some(zip_code), _config # None,
                                 TRUE, None)
                /\ UNCHANGED <<_config, config_dir, config_file>>
           ELSE /\ _config' = Some(config)
                /\ config_dir' = w.dir
                /\ config_file' = w.file
                /\ lastOp' = Op("update_zip_code", Some(zip_code), _config # None,
                                 w.raised, None)
        /\ UNCHANGED SessionVars

\* Another writer of the config file: an editor or another process.
ExternalWrite(content) ==
    /\ config_dir' = TRUE
    /\ config_file' = Some(content)
    /\ lastOp' = Op("external", None, _config # None, FALSE, None)
    /\ UNCHANGED <<_config, SessionVars>>

ExternalDelete ==
    /\ config_file # None
    /\ config_file' = None
    /\ lastOp' = Op("external", None, _config # None, FALSE, None)
    /\ UNCHANGED <<_config, config_dir, SessionVars>>

----------------------------------------------------------------------------
(* aidb_ai/main.py: the two fetcher tools *)

\* JSON values, and the Python values the tools build from them: tagged tuples.
JNull == <<"null">>
JStr(x) == <<"str", x, 0>>
JText(field, id) == <<"str", field, id>>   \* the text of `field` of item `id`
JNum(n) == <<"num", n>>
JList(items) == <<"list", items>>
JObj(f) == <<"obj", f>>
NotJson == <<"invalid">>
EmptyDict == [k \in {} |-> JNull]

\* dict.get(key, default)
DictGet(d, key, default) == IF key \in DOMAIN d THEN d[key] ELSE default

\* class AgentDeps
AgentDeps(news, weather, zip) ==
    [news_api_key |-> news, weather_api_key |-> weather, zip_code |-> zip]

\* What one HTTP GET can come to: no response at all, or a status with a body.
TransportError(reason) ==
    [kind |-> "transport", reason |-> reason, status |-> 0, body |-> NotJson]
Response(status, body) ==
    [kind |-> "response", reason |-> "", status |-> status, body |-> body]

\* IsRequestError with a fault: only connection failures caught by the first
\* except clause (httpx.ConnectError in place of httpx.RequestError).
IsRequestErrorConnectOnly(exc) == exc = "ConnectError"

\* httpx: the exceptions that are httpx.RequestError (timeouts, connection and
\* protocol failures); HTTPStatusError is not one of them.
IsRequestError(exc) ==
    exc \in {"ReadTimeout", "ConnectTimeout", "ConnectError", "ReadError"}

\* IsException with a fault: the second except clause narrowed to httpx.HTTPError
\* and ValueError.
IsExceptionHttpOnly(exc) ==
    exc \in {"ReadTimeout", "ConnectTimeout", "ConnectError", "ReadError",
             "HTTPStatusError", "JSONDecodeError"}

\* The exceptions a tool's try block can raise; each is an Exception.
IsException(exc) ==
    \/ IsRequestError(exc)
    \/ exc \in {"HTTPStatusError", "JSONDecodeError", "AttributeError", "TypeError"}

Caught(records) == [caught |-> TRUE, records |-> records]
Uncaught == [caught |-> FALSE, records |-> <<>>]

\* Response.raise_for_status raises unless the status is 2xx.
RaisesForStatus(status) == ~(200 <= status /\ status <= 299)

Raise(exc) == [exc |-> Some(exc), records |-> <<>>]
Return(records) == [exc |-> None, records |-> records]

\* One tool call as its caller sees it: the GETs it issued, whether an exception
\* left it, and the list it returned.
Called(requests, raised, records) ==
    [requests |-> requests, raised |-> raised, records |-> records]

\* Top with a fault: the slice left out, every article kept.
TopUnbounded(items) == items

\* articles[:5] of a list (any other sliceable value is handled by its caller)
MaxHeadlines == 5
Top(items) ==
    SubSeq(items, 1, IF Len(items) < MaxHeadlines THEN Len(items) ELSE MaxHeadlines)

\* lines 124-129: one article as the record given to the model
ProjectArticle(article) ==
    [title |-> DictGet(article, "title", JStr("")),
     description |-> DictGet(article, "description", JStr("")),
     source |-> DictGet(DictGet(article, "source", JObj(EmptyDict))[2], "name", JStr("")),
     published_at |-> DictGet(article, "publishedAt", JStr(""))]

\* Whether lines 125-128 raise AttributeError on `article`: it, or its source,
\* is no dict.
ArticleRaises(article) ==
    \/ article[1] # "obj"
    \/ DictGet(article[2], "source", JObj(EmptyDict))[1] # "obj"

\* lines 117-131: the body of get_headlines' try block
HeadlinesTry(outcome) ==
    IF outcome.kind = "transport" THEN Raise(outcome.reason)
    ELSE IF RaisesForStatus(outcome.status) THEN Raise("HTTPStatusError")
    ELSE IF outcome.body = NotJson THEN Raise("JSONDecodeError")
    ELSE IF outcome.body[1] # "obj" THEN Raise("AttributeError")
    ELSE LET raw == DictGet(outcome.body[2], "articles", JList(<<>>))
         IN  IF raw[1] \in {"null", "num", "obj"} THEN Raise("TypeError")
             ELSE IF raw[1] = "str"
                  THEN IF raw[2] = "" THEN Return(<<>>) ELSE Raise("AttributeError")
                  ELSE LET articles == Top(raw[2])
                       IN  IF \E i \in DOMAIN articles : ArticleRaises(articles[i])
                           THEN Raise("AttributeError")
                           ELSE Return([i \in DOMAIN articles |->
                                           ProjectArticle(articles[i][2])])

\* NewsKeyMissing with a fault: the guard checks the other key.
NewsKeyMissingChecksWeather(deps) == deps.weather_api_key = ""

\* line 103: `if not ctx.deps.news_api_key`
NewsKeyMissing(deps) == deps.news_api_key = ""

\* lines 104-109
NewsNotConfigured ==
    <<[title |-> JStr("News API key not configured"),
       description |-> JStr("Please set NEWS_API_KEY environment variable")]>>

\* lines 111-113
NewsUrl(deps, country) ==
    [endpoint |-> "https://newsapi.org/v2/top-headlines",
     country |-> country, apiKey |-> deps.news_api_key]

\* lines 132-145: the two except clauses of get_headlines
HeadlinesExcept(exc) ==
    IF IsRequestError(exc)
    THEN Caught(<<[title |-> <<"fstr", "Error fetching news: ", exc>>,
                   description |-> JStr("Could not retrieve news headlines")]>>)
    ELSE IF IsException(exc)
    THEN Caught(<<[title |-> <<"fstr", "Unexpected error: ", exc>>,
                   description |-> JStr("An error occurred while fetching news")]>>)
    ELSE Uncaught

get_headlines(deps, country, outcome) ==
    IF NewsKeyMissing(deps) THEN Called(<<>>, FALSE, NewsNotConfigured)
    ELSE LET url == NewsUrl(deps, country)
             try == HeadlinesTry(outcome)
             handler == HeadlinesExcept(try.exc[1])
         IN  IF try.exc = None THEN Called(<<url>>, FALSE, try.records)
             ELSE Called(<<url>>, ~handler.caught, handler.records)

\* lines 171-173: `x = location.get(...),` with its trailing comma is a 1-tuple
Tuple1(v) == <<"tuple", v>>

\* lines 166-182: the body of get_weather's try block
WeatherTry(outcome) ==
    IF outcome.kind = "transport" THEN Raise(outcome.reason)
    ELSE IF RaisesForStatus(outcome.status) THEN Raise("HTTPStatusError")
    ELSE IF outcome.body = NotJson THEN Raise("JSONDecodeError")
    ELSE IF outcome.body[1] # "obj" THEN Raise("AttributeError")
    ELSE LET weather == DictGet(outcome.body[2], "current", JObj(EmptyDict))
             location == DictGet(outcome.body[2], "location", JObj(EmptyDict))
         IN  IF location[1] # "obj" \/ weather[1] # "obj" THEN Raise("AttributeError")
             ELSE LET city == Tuple1(DictGet(location[2], "name", JStr("")))
                      region == Tuple1(DictGet(location[2], "region", JStr("")))
                      country == Tuple1(DictGet(location[2], "country", JStr("")))
                  IN  Return(<<[title |-> <<"fstr", "Current Weather for ", city,
                                            ", ", region, ", ", country>>,
                                temp_f |-> DictGet(weather[2], "temp_f", JStr("")),
                                humidity |-> DictGet(weather[2], "humidity", JStr("")),
                                last_updated |->
                                    DictGet(weather[2], "last_updated", JStr(""))]>>)

\* line 152: `if not ctx.deps.news_api_key`, the guard of get_weather
WeatherKeyMissing(deps) == deps.news_api_key = ""

\* lines 153-158
WeatherNotConfigured ==
    <<[title |-> JStr("Weather API key not configured"),
       description |-> JStr("Please set WEATHER_API_KEY environment variable")]>>

\* lines 160-162: `ctx.deps.zip_code or 'auto:ip'`
WeatherUrl(deps) ==
    [endpoint |-> "http://api.weatherapi.com/v1/current.json",
     key |-> deps.weather_api_key,
     q |-> IF deps.zip_code = None \/ deps.zip_code = Some("")
           THEN "auto:ip" ELSE deps.zip_code[1]]

\* lines 183-196: the two except clauses of get_weather
WeatherExcept(exc) ==
    IF IsRequestError(exc)
    THEN Caught(<<[title |-> <<"fstr", "Error fetching weather: ", exc>>,
                   description |-> JStr("Could not retrieve current weather")]>>)
    ELSE IF IsException(exc)
    THEN Caught(<<[title |-> <<"fstr", "Unexpected error: ", exc>>,
                   description |-> JStr("An error occurred while fetching weather")]>>)
    ELSE Uncaught

get_weather(deps, outcome) ==
    IF WeatherKeyMissing(deps) THEN Called(<<>>, FALSE, WeatherNotConfigured)
    ELSE LET url == WeatherUrl(deps)
             try == WeatherTry(outcome)
             handler == WeatherExcept(try.exc[1])
         IN  IF try.exc = None THEN Called(<<url>>, FALSE, try.records)
             ELSE Called(<<url>>, ~handler.caught, handler.records)

----------------------------------------------------------------------------
(* aidb_ai/main.py: AIDBAgent, one session *)

\* os.getenv(name, "")
getenv(env, name) == IF env[name] = None THEN "" ELSE env[name][1]

\* One message of the history: which turn produced it, its place among that
\* turn's new messages, its kind, and the tool it is about.
Msg(t, n, kind, tool) == [turn |-> t, n |-> n, kind |-> kind, tool |-> tool]

\* line 42: the history handed to agent.run
SuppliedHistory(history) == history

\* ExtendHistory with a fault: the new messages put inside the history, after
\* its first message.
ExtendHistoryInterleaves(history, new) ==
    IF history = <<>> THEN new ELSE <<Head(history)>> \o new \o Tail(history)

\* ExtendHistory with a fault: the new messages put before the history.
ExtendHistoryPrepends(history, new) == new \o history

\* ExtendHistory with a fault: the history assigned, not extended.
ExtendHistoryAssigns(history, new) == new

\* line 44: self.message_history.extend(result.new_messages())
ExtendHistory(history, new) == history \o new

\* HistoryAfterFailure with a fault: the turn's messages so far kept (an extend
\* in a finally clause).
HistoryAfterFailureKeeps(history, new) == history \o new

\* lines 41-44: an exception out of agent.run skips the extend
HistoryAfterFailure(history, new) == history

\* lines 71-72 of get_daily_briefing: the zip code named in the prompt
ZipInfo(zip) == IF zip = None \/ zip = Some("") THEN None ELSE zip

Running(t) == t \in DOMAIN turns /\ turns[t].status = "running"
ToolCalls(t) == Cardinality({i \in DOMAIN turns[t].new :
                                turns[t].new[i].kind = "tool-return"})

\* request_async up to its await (lines 40-43), or get_daily_briefing up to the
\* same point (lines 71-81): build the deps, hand the history to agent.run.
StartTurn(kind) ==
    LET t == Len(turns) + 1
        r == load_config(_config, config_file)
        deps == AgentDeps(getenv(environ, "NEWS_API_KEY"),
                          getenv(environ, "WEATHER_API_KEY"),
                          r.config.zip_code)
        prompt == [kind |-> kind,
                   zip_info |-> IF kind = "briefing"
                                THEN ZipInfo(r.config.zip_code) ELSE None]
    IN  /\ t <= MaxTurns
        /\ _config' = IF r.raised THEN _config ELSE Some(r.config)
        /\ lastOp' = Op("get_zip_code", None, _config # None, r.raised,
                        r.config.zip_code)
        /\ turns' = Append(turns,
              [status |-> IF r.raised THEN "failed" ELSE "running",
               error |-> IF r.raised THEN "config" ELSE "none",
               prompt |-> prompt,
               deps |-> deps,
               runs |-> IF r.raised THEN 0 ELSE 1,
               supplied |-> SuppliedHistory(message_history),
               new |-> <<Msg(t, 1, "user-prompt", "")>>])
        /\ overlapped' = (overlapped \/ \E u \in DOMAIN turns : Running(u))
        /\ UNCHANGED <<config_dir, config_file, environ, message_history, lastCall>>

\* A tool of turn t comes back with `res`: the runtime adds the call and its
\* return to the turn's messages; an exception leaving the tool leaves agent.run.
ToolStep(t, tool, res) ==
    LET n == Len(turns[t].new)
    IN  /\ Running(t)
        /\ ToolCalls(t) < MaxToolCalls
        /\ turns' = [turns EXCEPT ![t] =
              IF res.raised
              THEN [@ EXCEPT !.status = "failed", !.error = "tool"]
              ELSE [@ EXCEPT !.new = @ \o <<Msg(t, n + 1, "tool-call", tool),
                                            Msg(t, n + 2, "tool-return", tool)>>]]
        /\ message_history' =
              IF res.raised
              THEN HistoryAfterFailure(message_history, turns[t].new)
              ELSE message_history
        /\ UNCHANGED <<_config, config_dir, config_file, lastOp, environ, overlapped>>

\* CountryParam with a fault: the caller's argument dropped.
CountryParamFixed(given) == "us"

\* line 100: `country: str = "us"`, the parameter for what the caller gave
CountryParam(given) == IF given = None THEN "us" ELSE given[1]

\* The runtime calls a tool with the arguments the model chose: get_headlines
\* with a country or with none, get_weather with none.
CallTool(deps, tool, given, outcome) ==
    IF tool = "get_headlines" THEN get_headlines(deps, CountryParam(given), outcome)
    ELSE get_weather(deps, outcome)

\* The runtime, inside agent.run of turn t, calls one of the two tools with the
\* turn's deps; the call is recorded in lastCall.
InvokeTool(t, tool, given, outcome) ==
    LET deps == turns[t].deps
        res == CallTool(deps, tool, given, outcome)
    IN  /\ ToolStep(t, tool, res)
        /\ lastCall' = [tool |-> tool, turn |-> t, deps |-> deps, given |-> given,
                        country |-> CountryParam(given),
                        outcome |-> outcome, requests |-> res.requests,
                        raised |-> res.raised, records |-> res.records]

\* The same step, the call not recorded.
RunTool(t, tool, given, outcome) ==
    /\ ToolStep(t, tool, CallTool(turns[t].deps, tool, given, outcome))
    /\ UNCHANGED lastCall

\* agent.run of turn t returns: lines 44-45.
FinishTurn(t) ==
    LET new == Append(turns[t].new, Msg(t, Len(turns[t].new) + 1, "text", ""))
    IN  /\ Running(t)
        /\ turns' = [turns EXCEPT ![t] = [@ EXCEPT !.status = "done", !.new = new]]
        /\ message_history' = ExtendHistory(message_history, new)
        /\ UNCHANGED <<_config, config_dir, config_file, lastOp, environ,
                       overlapped, lastCall>>

\* The language-model runtime fails in turn t: agent.run raises.
FailTurn(t) ==
    /\ Running(t)
    /\ turns' = [turns EXCEPT ![t] = [@ EXCEPT !.status = "failed", !.error = "runtime"]]
    /\ message_history' = HistoryAfterFailure(message_history, turns[t].new)
    /\ UNCHANGED <<_config, config_dir, config_file, lastOp, environ,
                   overlapped, lastCall>>

\* RequestHistory with a fault: request extends the history as request_async does.
RequestHistoryExtends(history, new) == history \o new

\* lines 35-36: request returns the result of run_sync and keeps none of it
RequestHistory(history, new) == history

\* AIDBAgent.request (lines 33-36), a blocking call: build the deps, run the
\* model with the prompt and no message history, return its result or let its
\* exception out. `status` is "returned" or "raised".
Request(status) ==
    LET t == Len(turns) + 1
        r == load_config(_config, config_file)
        deps == AgentDeps(getenv(environ, "NEWS_API_KEY"),
                          getenv(environ, "WEATHER_API_KEY"),
                          r.config.zip_code)
        new == IF status = "returned"
               THEN <<Msg(t, 1, "user-prompt", ""), Msg(t, 2, "text", "")>>
               ELSE <<Msg(t, 1, "user-prompt", "")>>
    IN  /\ t <= MaxTurns
        /\ _config' = IF r.raised THEN _config ELSE Some(r.config)
        /\ lastOp' = Op("get_zip_code", None, _config # None, r.raised,
                        r.config.zip_code)
        /\ turns' = Append(turns,
              [status |-> IF r.raised THEN "raised" ELSE status,
               error |-> IF r.raised THEN "config"
                         ELSE IF status = "raised" THEN "runtime" ELSE "none",
               prompt |-> [kind |-> "request", zip_info |-> None],
               deps |-> deps,
               runs |-> IF r.raised THEN 0 ELSE 1,
               supplied |-> <<>>,
               new |-> new])
        /\ message_history' = RequestHistory(message_history, new)
        /\ UNCHANGED <<config_dir, config_file, environ, overlapped, lastCall>>

\* AIDBAgent.set_zip_code
SetZipCode(zip_code, outcome, partial) == UpdateZipCode(zip_code, outcome, partial)

\* The process environment changes (load_dotenv, os.environ) between calls.
SetEnv(env) ==
    /\ environ' = env
    /\ UNCHANGED <<_config, config_dir, config_file, lastOp, message_history,
                   turns, overlapped, lastCall>>

----------------------------------------------------------------------------
(* The inputs: disk failures, environments, HTTP outcomes *)

SaveInputs(content) ==
    {<<"ok", <<>>>>, <<"mkdir_error", <<>>>>, <<"open_error", <<>>>>}
    \cup {<<"write_error", p>> : p \in PartialContents(content)}

ApiKeys == {None, Some(""), Some("key")}
Environments == [NEWS_API_KEY : ApiKeys, WEATHER_API_KEY : ApiKeys]
NoEnv == [NEWS_API_KEY |-> None, WEATHER_API_KEY |-> None]
BothKeys == [NEWS_API_KEY |-> Some("key"), WEATHER_API_KEY |-> Some("key")]

Countries == {"us", "de"}
CountryArgs == {None} \cup {Some(c) : c \in Countries}

TransportErrors == {TransportError(e) : e \in {"ReadTimeout", "ConnectError"}}
ErrorStatuses == {Response(c, NotJson) : c \in {301, 404, 500}}

\* Article `id` of a news payload, in each shape a payload can give it.
ArticleShapes ==
    {"full", "empty", "null_fields", "source_without_name", "source_null", "not_object"}
Article(id, shape) ==
    CASE shape = "full" ->
           JObj([k \in {"title", "description", "source", "publishedAt", "url"} |->
                   IF k = "source"
                   THEN JObj([j \in {"id", "name"} |-> JText("source." \o j, id)])
                   ELSE JText(k, id)])
      [] shape = "empty" -> JObj(EmptyDict)
      [] shape = "null_fields" ->
           JObj([k \in {"title", "description", "publishedAt"} |-> JNull])
      [] shape = "source_without_name" ->
           JObj([k \in {"title", "source"} |->
                   IF k = "source" THEN JObj(EmptyDict) ELSE JText(k, id)])
      [] shape = "source_null" ->
           JObj([k \in {"title", "source"} |->
                   IF k = "source" THEN JNull ELSE JText(k, id)])
      [] shape = "not_object" -> JText("article", id)

\* n articles, all full but the one at place `odd` (0: none), which has `shape`.
Articles(n, odd, shape) ==
    [i \in 1..n |-> Article(i, IF i = odd THEN shape ELSE "full")]

ArticleLists ==
    {Articles(n, 0, "full") : n \in 0..MaxArticles}
    \cup {Articles(MaxArticles, odd, shape) :
             odd \in 1..MaxArticles, shape \in ArticleShapes \ {"full"}}

NewsPayload(articles) ==
    JObj([k \in {"status", "articles"} |->
             IF k = "articles" THEN articles ELSE JStr("ok")])

NewsBodies ==
    {NotJson, JNull, JList(<<>>), JStr("ok"), JObj(EmptyDict),
     JObj([k \in {"status"} |-> JStr("error")])}
    \cup {NewsPayload(a) : a \in {JNull, JStr(""), JStr("none"), JNum(0),
                                  JObj(EmptyDict)}}
    \cup {NewsPayload(JList(a)) : a \in ArticleLists}

NewsOutcomes ==
    TransportErrors \cup ErrorStatuses \cup {Response(200, b) : b \in NewsBodies}

\* The `current` and `location` members of a weather payload, in each shape.
MemberShapes == {"missing", "null", "text", "empty", "full"}
Current(shape) ==
    CASE shape = "full" ->
           JObj([k \in {"temp_f", "humidity", "last_updated", "temp_c"} |->
                   IF k = "last_updated" THEN JText(k, 1) ELSE JNum(70)])
      [] shape = "empty" -> JObj(EmptyDict)
      [] shape = "text" -> JStr("current")
      [] OTHER -> JNull
Location(shape) ==
    CASE shape = "full" ->
           JObj([k \in {"name", "region", "country", "lat"} |->
                   IF k = "lat" THEN JNum(40) ELSE JText(k, 1)])
      [] shape = "empty" -> JObj(EmptyDict)
      [] shape = "text" -> JStr("location")
      [] OTHER -> JNull

WeatherPayload(cur, loc) ==
    JObj([k \in ({"current" : x \in {cur} \ {"missing"}}
                 \cup {"location" : x \in {loc} \ {"missing"}}) |->
             IF k = "current" THEN Current(cur) ELSE Location(loc)])

WeatherBodies ==
    {NotJson, JNull, JList(<<>>), JStr("ok")}
    \cup {WeatherPayload(c, l) : c \in MemberShapes, l \in MemberShapes}

WeatherOutcomes ==
    TransportErrors \cup ErrorStatuses \cup {Response(200, b) : b \in WeatherBodies}

Outcomes(tool) == IF tool = "get_headlines" THEN NewsOutcomes ELSE WeatherOutcomes
Tools == {"get_headlines", "get_weather"}

\* The outcomes the session specification draws from: one of each kind.
SessionOutcomes(tool) ==
    {TransportError("ReadTimeout")}
    \cup (IF tool = "get_headlines"
          THEN {Response(200, NewsPayload(JList(Articles(1, 0, "full"))))}
          ELSE {Response(200, WeatherPayload("full", "full"))})

NoCall ==
    [tool |-> "none", turn |-> 0, deps |-> AgentDeps("", "", None), given |-> None,
     country |-> "",
     outcome |-> TransportError(""), requests |-> <<>>, raised |-> FALSE,
     records |-> <<>>]

----------------------------------------------------------------------------
(* Specifications *)

\* AIDBAgent.__init__
SessionInit ==
    /\ message_history = <<>>
    /\ turns = <<>>
    /\ overlapped = FALSE
    /\ lastCall = NoCall

\* A ConfigManager just constructed, over whatever the disk holds.
ConfigInit ==
    /\ _config = None
    /\ config_file \in {None} \cup {Some(c) : c \in FileContents}
    /\ config_dir \in BOOLEAN
    /\ config_file # None => config_dir
    /\ lastOp = Op("__init__", None, FALSE, FALSE, None)

\* The Config Store alone: every operation of a ConfigManager, restarts, and
\* other writers of the file.
InitConfig == ConfigInit /\ SessionInit /\ environ = NoEnv

NextConfig ==
    \/ NewConfigManager
    \/ LoadConfig
    \/ GetZipCode
    \/ NeedsZipCode
    \/ \E z \in ZipCodes : \E i \in SaveInputs(<<ZipLine(z)>>) :
           UpdateZipCode(z, i[1], i[2])
    \/ \E c \in {None} \cup {Some(UserConfig(z)) : z \in {None, Some("10001")}} :
           \E i \in SaveInputs(<<MalformedLine>>) : SaveConfig(c, i[1], i[2])
    \/ \E c \in FileContents : ExternalWrite(c)
    \/ ExternalDelete

SpecConfig == InitConfig /\ [][NextConfig]_vars

\* One ConfigManager and no other writer of the file: its reads, saves and
\* updates, the writes free to fail.
NextOneWriter ==
    \/ LoadConfig
    \/ GetZipCode
    \/ NeedsZipCode
    \/ \E z \in ZipCodes : \E i \in SaveInputs(<<ZipLine(z)>>) :
           UpdateZipCode(z, i[1], i[2])
    \/ \E c \in {None} \cup {Some(UserConfig(z)) : z \in {None, Some("10001")}} :
           \E i \in SaveInputs(<<MalformedLine>>) : SaveConfig(c, i[1], i[2])

SpecOneWriter == InitConfig /\ [][NextOneWriter]_vars

\* One turn of a session, its tools called with every HTTP outcome.
InitFetch ==
    /\ SessionInit
    /\ environ \in Environments
    /\ _config = None
    /\ config_file \in {None} \cup {Some(<<ZipLine(z)>>) : z \in ZipCodes}
    /\ config_dir = TRUE
    /\ lastOp = Op("__init__", None, FALSE, FALSE, None)

NextFetch ==
    \/ turns = <<>> /\ StartTurn("chat")
    \/ \E t \in DOMAIN turns : \E tool \in Tools : \E given \in CountryArgs :
           \E outcome \in Outcomes(tool) :
               /\ tool = "get_weather" => given = None
               /\ InvokeTool(t, tool, given, outcome)
    \/ \E t \in DOMAIN turns : FinishTurn(t)
    \/ \E t \in DOMAIN turns : FailTurn(t)

SpecFetch == InitFetch /\ [][NextFetch]_vars

\* The session, its turns free to overlap: request_async is a coroutine, and
\* nothing in AIDBAgent keeps a caller from starting one while another awaits.
\* The briefing is the session's first turn (aidb_tui/main.py 172-184).
SessionEnvironments == {NoEnv, BothKeys}

Init ==
    /\ SessionInit
    /\ environ \in SessionEnvironments
    /\ _config = None
    /\ config_file \in {None, Some(<<ZipLine("90210")>>)}
    /\ config_dir = (config_file # None)
    /\ lastOp = Op("__init__", None, FALSE, FALSE, None)

Begin(kind) ==
    /\ kind = "briefing" => turns = <<>>
    /\ StartTurn(kind)

Next ==
    \/ \E kind \in {"chat", "briefing"} : Begin(kind)
    \/ \E t \in DOMAIN turns : \E tool \in Tools :
           \E outcome \in SessionOutcomes(tool) : RunTool(t, tool, None, outcome)
    \/ \E t \in DOMAIN turns : FinishTurn(t)
    \/ \E t \in DOMAIN turns : FailTurn(t)

Spec == Init /\ [][Next]_vars

\* The chat loop (aidb_tui/main.py 126-153): it awaits each turn before it reads
\* the next line, so turns follow one another; the zip code, the file and the
\* environment change under it.
Idle == \A u \in DOMAIN turns : ~Running(u)

NextChat ==
    \/ \E kind \in {"chat", "briefing"} : Idle /\ Begin(kind)
    \/ \E t \in DOMAIN turns :
           InvokeTool(t, "get_weather", None, TransportError("ReadTimeout"))
    \/ \E t \in DOMAIN turns : FinishTurn(t)
    \/ \E t \in DOMAIN turns : FailTurn(t)
    \/ \E i \in {<<"ok", <<>>>>, <<"write_error", <<>>>>} :
           SetZipCode("10001", i[1], i[2])
    \/ ExternalWrite(<<ZipLine("90210")>>)
    \/ \E e \in SessionEnvironments : SetEnv(e)

SpecChat == Init /\ [][NextChat]_vars

\* Every step that the history can see, from one starting point: turns that may
\* overlap, the briefing, the blocking request, tool calls, and set_zip_code.
InitHistory ==
    /\ SessionInit
    /\ environ = BothKeys
    /\ _config = None
    /\ config_file = None
    /\ config_dir = FALSE
    /\ lastOp = Op("__init__", None, FALSE, FALSE, None)

NextHistory ==
    \/ \E kind \in {"chat", "briefing"} : Begin(kind)
    \/ \E status \in {"returned", "raised"} : Request(status)
    \/ \E t \in DOMAIN turns : \E outcome \in SessionOutcomes("get_headlines") :
           RunTool(t, "get_headlines", None, outcome)
    \/ \E t \in DOMAIN turns : FinishTurn(t)
    \/ \E t \in DOMAIN turns : FailTurn(t)
    \/ SetZipCode("10001", "ok", <<>>)

SpecHistory == InitHistory /\ [][NextHistory]_vars

----------------------------------------------------------------------------
(* Properties *)

\* The new messages of the successful turns 1..n, in turn order.
RECURSIVE Produced(_)
Produced(n) ==
    IF n = 0 THEN <<>>
    ELSE Produced(n - 1) \o (IF turns[n].status = "done" THEN turns[n].new ELSE <<>>)

InFlight == {t \in DOMAIN turns : Running(t)}

\* C1: while the turns of a session follow one another without overlapping, the
\* history is the concatenation, in turn order, of the new messages of the
\* successful turns so far, and every turn's model invocation was supplied the
\* concatenation of the new messages of the successful turns before it.
C1_SequentialHistory ==
    ~overlapped =>
        /\ message_history = Produced(Len(turns))
        /\ \A t \in DOMAIN turns : turns[t].supplied = Produced(t - 1)

C1_Witness ==
    /\ ~overlapped
    /\ Len(turns) = 2
    /\ \A t \in DOMAIN turns : turns[t].status = "done"
    /\ turns[2].supplied = turns[1].new
    /\ Len(message_history) > Len(turns[1].new)

\* C2: at most one turn of a session is in the processing-turn state at a time.
C2_OneTurnInFlight == Cardinality(InFlight) <= 1

\* C3: a turn that failed failed with the runtime's error (no tool raised into
\* it); none of its messages is in the history; the step in which it fails leaves
\* the history as it was; a failed turn is never run again; and when turns do not
\* overlap the history after the failure is the history the turn was supplied,
\* which is also what the following turn is supplied.
C3_RuntimeFailure ==
    /\ [](\A t \in DOMAIN turns :
            turns[t].status = "failed" =>
                /\ turns[t].error = "runtime"
                /\ \A i \in DOMAIN message_history : message_history[i].turn # t
                /\ ~overlapped =>
                      IF t = Len(turns)
                      THEN message_history = turns[t].supplied
                      ELSE turns[t + 1].supplied = turns[t].supplied)
    /\ [][\A t \in DOMAIN turns :
            /\ (Running(t) /\ turns'[t].status = "failed") =>
                   message_history' = message_history
            /\ turns[t].status = "failed" => turns'[t] = turns[t]]_vars

C3_Witness ==
    /\ ~overlapped
    /\ Len(turns) = 2
    /\ turns[1].status = "done"
    /\ turns[2].status = "failed"
    /\ turns[2].error = "runtime"
    /\ message_history = turns[1].new

Issued(call) == call.tool \in Tools /\ call.requests # <<>>
News(call) == call.tool = "get_headlines"

\* C4: when the GET of a fetcher fails in transport, the fetcher has issued it
\* once, does not raise, and returns one record whose title embeds the failure
\* reason and whose description says the resource could not be retrieved; the
\* failure does not reach the turn as an error.
C4_TransportFailure ==
    (Issued(lastCall) /\ lastCall.outcome.kind = "transport") =>
        /\ Len(lastCall.requests) = 1
        /\ ~lastCall.raised
        /\ Len(lastCall.records) = 1
        /\ DOMAIN lastCall.records[1] = {"title", "description"}
        /\ lastCall.records[1].title =
              <<"fstr",
                IF News(lastCall) THEN "Error fetching news: "
                ELSE "Error fetching weather: ",
                lastCall.outcome.reason>>
        /\ lastCall.records[1].description =
              JStr(IF News(lastCall) THEN "Could not retrieve news headlines"
                   ELSE "Could not retrieve current weather")
        /\ turns[lastCall.turn].error # "tool"

C4_Witness ==
    /\ lastCall.tool = "get_weather"
    /\ Issued(lastCall)
    /\ lastCall.outcome = TransportError("ReadTimeout")
    /\ Len(lastCall.records) = 1
    /\ turns[lastCall.turn].status = "done"

\* C5: get_weather returns the not-configured record, and issues no GET, exactly
\* when the weather API key is empty, whatever the news API key.
C5_WeatherKeyGuard ==
    lastCall.tool = "get_weather" =>
        IF lastCall.deps.weather_api_key = ""
        THEN /\ lastCall.requests = <<>>
             /\ ~lastCall.raised
             /\ lastCall.records = WeatherNotConfigured
        ELSE lastCall.records # WeatherNotConfigured

\* C6: with the news API key absent or empty, get_headlines issues no GET, does
\* not raise, and returns the one record that says the key is not configured and
\* names NEWS_API_KEY, for every country.
C6_NewsKeyMissing ==
    (News(lastCall) /\ environ.NEWS_API_KEY \in {None, Some("")}) =>
        /\ lastCall.deps.news_api_key = ""
        /\ lastCall.requests = <<>>
        /\ ~lastCall.raised
        /\ Len(lastCall.records) = 1
        /\ lastCall.records[1].title = JStr("News API key not configured")
        /\ lastCall.records[1].description =
              JStr("Please set NEWS_API_KEY environment variable")

C6_Witness ==
    /\ News(lastCall)
    /\ environ.NEWS_API_KEY = None
    /\ environ.WEATHER_API_KEY = Some("key")
    /\ lastCall.country = "de"
    /\ lastCall.records = NewsNotConfigured

Non2xx(call) == ~(200 <= call.outcome.status /\ call.outcome.status <= 299)
Member(body, key) == body[1] = "obj" /\ key \in DOMAIN body[2]
IsObject(v) == v[1] = "obj"

\* The one "unexpected error" record of a fetcher.
UnexpectedErrorRecord(call) ==
    /\ ~call.raised
    /\ Len(call.records) = 1
    /\ DOMAIN call.records[1] = {"title", "description"}
    /\ call.records[1].title[1] = "fstr"
    /\ call.records[1].title[2] = "Unexpected error: "
    /\ call.records[1].description =
          JStr(IF News(call) THEN "An error occurred while fetching news"
               ELSE "An error occurred while fetching weather")

\* The unexpected payload shapes as the spec lists them.
UnexpectedShape(call) ==
    LET body == call.outcome.body
    IN  \/ ~IsObject(body)
        \/ /\ News(call)
           /\ \/ ~Member(body, "articles")
              \/ body[2]["articles"][1] # "list"
              \/ \E i \in DOMAIN body[2]["articles"][2] :
                     ~IsObject(body[2]["articles"][2][i])
        \/ /\ ~News(call)
           /\ \/ ~Member(body, "current") \/ ~IsObject(body[2]["current"])
              \/ ~Member(body, "location") \/ ~IsObject(body[2]["location"])

\* C7 as the spec states it: every non-2xx response and every unexpected payload
\* shape gives the one "unexpected error" record.
C7_AnyUnexpectedShape ==
    (Issued(lastCall) /\ lastCall.outcome.kind = "response"
        /\ (Non2xx(lastCall) \/ UnexpectedShape(lastCall))) =>
        UnexpectedErrorRecord(lastCall)

\* The payload shapes the code rejects: a body that is no JSON object; an
\* `articles` that is null, a number, an object or a non-empty string; one of the
\* first five articles not an object; a `current` or `location` that is given
\* and is not an object.
RejectedShape(call) ==
    LET body == call.outcome.body
    IN  \/ ~IsObject(body)
        \/ /\ News(call)
           /\ Member(body, "articles")
           /\ LET a == body[2]["articles"]
              IN  \/ a[1] \in {"null", "num", "obj"}
                  \/ a[1] = "str" /\ a[2] # ""
                  \/ /\ a[1] = "list"
                     /\ \E i \in DOMAIN a[2] : i <= MaxHeadlines /\ ~IsObject(a[2][i])
        \/ /\ ~News(call)
           /\ \/ Member(body, "current") /\ ~IsObject(body[2]["current"])
              \/ Member(body, "location") /\ ~IsObject(body[2]["location"])

\* The weather record built from defaults for what the payload lacks.
DefaultedWeather(call) ==
    LET body == call.outcome.body[2]
        r == call.records[1]
    IN  /\ Len(call.records) = 1
        /\ DOMAIN r = {"title", "temp_f", "humidity", "last_updated"}
        /\ r.title[2] = "Current Weather for "
        /\ "current" \notin DOMAIN body =>
              r.temp_f = JStr("") /\ r.humidity = JStr("") /\ r.last_updated = JStr("")
        /\ "location" \notin DOMAIN body =>
              r.title[3] = Tuple1(JStr("")) /\ r.title[5] = Tuple1(JStr(""))
                 /\ r.title[7] = Tuple1(JStr(""))

\* C7, amended: no response makes a fetcher raise; a non-2xx response and a
\* rejected payload shape give the one "unexpected error" record; a 2xx JSON
\* object without `articles` gives zero records; a 2xx JSON object that lacks
\* `current` or `location` (the other an object, if given) gives the weather
\* record with the missing fields defaulted to empty strings.
C7_RejectedShapes ==
    (Issued(lastCall) /\ lastCall.outcome.kind = "response") =>
        /\ ~lastCall.raised
        /\ (Non2xx(lastCall) \/ RejectedShape(lastCall)) =>
              UnexpectedErrorRecord(lastCall)
        /\ (~Non2xx(lastCall) /\ News(lastCall) /\ IsObject(lastCall.outcome.body)
               /\ ~Member(lastCall.outcome.body, "articles")) =>
              lastCall.records = <<>>
        /\ (~Non2xx(lastCall) /\ ~News(lastCall) /\ ~RejectedShape(lastCall)
               /\ (~Member(lastCall.outcome.body, "current")
                      \/ ~Member(lastCall.outcome.body, "location"))) =>
              DefaultedWeather(lastCall)

C7_Witness ==
    /\ News(lastCall)
    /\ Issued(lastCall)
    /\ lastCall.outcome = Response(200, NewsPayload(JList(Articles(MaxArticles, 2, "not_object"))))
    /\ UnexpectedErrorRecord(lastCall)
    /\ lastCall.records[1].title[3] = "AttributeError"

Started == Len(turns') = Len(turns) + 1
NewDeps == turns'[Len(turns')].deps
EnvKey(name) == IF environ[name] = None THEN "" ELSE environ[name][1]

\* C8 as the spec states it, for the turns that begin when no write of the file
\* by this session has failed: the deps of a turn carry the zip code the config
\* file holds when the turn begins, and the environment's API keys.
C8_DepsFollowFile ==
    [][(Started /\ ~lastOp.raised) =>
          /\ NewDeps.zip_code = ReadConfigFile(config_file).config.zip_code
          /\ NewDeps.news_api_key = EnvKey("NEWS_API_KEY")
          /\ NewDeps.weather_api_key = EnvKey("WEATHER_API_KEY")]_vars

\* C8, amended: the deps of a turn are built when the turn begins; their API
\* keys are the environment's at that moment; their zip code is the one the
\* session's ConfigManager holds: the cached config's once the manager has
\* loaded or set one, the file's otherwise. So a zip code this session has just
\* set is the one the next turn receives, and a change to the file by another
\* writer after the first load is not seen.
C8_DepsFollowCache ==
    [][Started =>
          /\ NewDeps.zip_code =
                IF _config # None THEN _config[1].zip_code
                ELSE ReadConfigFile(config_file).config.zip_code
          /\ NewDeps.news_api_key = EnvKey("NEWS_API_KEY")
          /\ NewDeps.weather_api_key = EnvKey("WEATHER_API_KEY")
          /\ (lastOp.op = "update_zip_code" /\ ~lastOp.raised) =>
                NewDeps.zip_code = lastOp.arg
          /\ (lastOp.op = "external" /\ lastOp.cached) =>
                NewDeps.zip_code = _config[1].zip_code]_vars

C8_Witness ==
    /\ Len(turns) = 2
    /\ turns[1].deps.zip_code = Some("90210")
    /\ turns[2].deps.zip_code = Some("10001")
    /\ turns[1].deps.news_api_key # turns[2].deps.news_api_key
    /\ lastCall.turn = 2
    /\ lastCall.deps.zip_code = Some("10001")

\* C9: right after an update_zip_code(z) that returned, get_zip_code on the same
\* ConfigManager returns z, and so does get_zip_code on a ConfigManager created
\* then, which loads the file; whatever the file held before.
C9_ZipRoundTrip ==
    (lastOp.op = "update_zip_code" /\ ~lastOp.raised) =>
        /\ _config # None
        /\ _config[1].zip_code = lastOp.arg
        /\ config_file # None
        /\ ReadConfigFile(config_file) = [raised |-> FALSE, config |-> UserConfig(lastOp.arg)]

C9_Witness ==
    /\ lastOp.op = "update_zip_code"
    /\ ~lastOp.raised
    /\ ~lastOp.cached
    /\ lastOp.arg = Some("")
    /\ config_file = Some(<<ZipLine("")>>)

\* A file load_config cannot use: absent, unparsable, or with a zip_code that is
\* no string.
Unusable(file) ==
    \/ file = None
    \/ \E i \in DOMAIN file[1] : file[1][i].type = "malformed"
    \/ \E i, j \in DOMAIN file[1] : i < j /\ file[1][i].key = file[1][j].key
    \/ \E i \in DOMAIN file[1] : file[1][i].key = "zip_code" /\ file[1][i].type # "str"

\* C10: load_config never raises and leaves the file and its directory as they
\* are; when it reads the file (the manager holds no config yet), an absent,
\* unparsable or invalid file gives the default UserConfig, zip_code None, and a
\* valid one gives its zip_code, unknown keys ignored.
C10_LoadNeverRaises ==
    /\ [](lastOp.op = "load_config" =>
            /\ ~lastOp.raised
            /\ _config = Some(lastOp.ret)
            /\ ~lastOp.cached =>
                  IF Unusable(config_file) THEN lastOp.ret = DefaultConfig
                  ELSE \A i \in DOMAIN config_file[1] :
                           config_file[1][i].key = "zip_code" =>
                               lastOp.ret.zip_code = Some(config_file[1][i].val))
    /\ [][lastOp'.op = "load_config" =>
            config_file' = config_file /\ config_dir' = config_dir]_vars

C10_Witness ==
    /\ lastOp.op = "load_config"
    /\ ~lastOp.cached
    /\ config_file = Some(<<MalformedLine>>)
    /\ lastOp.ret = DefaultConfig

\* C11: save_config overwrites the file atomically: after every save_config or
\* update_zip_code step, one that failed part-way included, a ConfigManager
\* created then loads from the file the config it held before the step or the
\* complete new config, never an empty or partial one.
C11_AtomicSave ==
    [][lastOp'.op \in {"save_config", "update_zip_code"} =>
          \/ ReadConfigFile(config_file').config = ReadConfigFile(config_file).config
          \/ /\ _config' # None
             /\ ReadConfigFile(config_file').config = _config'[1]]_vars

\* An article as the news endpoint documents it: a JSON object whose `source`,
\* when it has one, is a JSON object.
WellFormedArticle(a) ==
    IsObject(a) /\ (Member(a, "source") => IsObject(a[2]["source"]))

\* Field `key` of the JSON object `obj`, the empty string when it has none.
FieldOrEmpty(obj, key) == IF Member(obj, key) THEN obj[2][key] ELSE JStr("")

\* A get_headlines call with a non-empty key that was answered 2xx with a JSON
\* object whose `articles` is an array, its first five items well-formed.
HeadlinesSuccess(call) ==
    /\ News(call)
    /\ call.deps.news_api_key # ""
    /\ call.outcome.kind = "response"
    /\ ~Non2xx(call)
    /\ Member(call.outcome.body, "articles")
    /\ call.outcome.body[2]["articles"][1] = "list"
    /\ \A i \in DOMAIN call.outcome.body[2]["articles"][2] :
           i <= 5 => WellFormedArticle(call.outcome.body[2]["articles"][2][i])

\* C12: with a non-empty news key and a 2xx response whose `articles` array has
\* n items, get_headlines returns min(n, 5) records; record i has exactly the
\* fields title, description, source and published_at, taken from the title,
\* description, source.name and publishedAt of article i, the empty string for
\* each one the article lacks.
C12_TopFiveProjected ==
    HeadlinesSuccess(lastCall) =>
        LET items == lastCall.outcome.body[2]["articles"][2]
            n == Len(items)
        IN  /\ ~lastCall.raised
            /\ Len(lastCall.requests) = 1
            /\ Len(lastCall.records) = (IF n < 5 THEN n ELSE 5)
            /\ \A i \in DOMAIN lastCall.records :
                   /\ DOMAIN lastCall.records[i] =
                          {"title", "description", "source", "published_at"}
                   /\ lastCall.records[i].title = FieldOrEmpty(items[i], "title")
                   /\ lastCall.records[i].description =
                          FieldOrEmpty(items[i], "description")
                   /\ lastCall.records[i].published_at =
                          FieldOrEmpty(items[i], "publishedAt")
                   /\ lastCall.records[i].source =
                          IF Member(items[i], "source")
                          THEN FieldOrEmpty(items[i][2]["source"], "name")
                          ELSE JStr("")

C12_Witness ==
    /\ HeadlinesSuccess(lastCall)
    /\ lastCall.outcome =
          Response(200, NewsPayload(JList(Articles(MaxArticles, 2, "empty"))))
    /\ Len(lastCall.records) = 5
    /\ lastCall.records[1].title = JText("title", 1)
    /\ lastCall.records[2].title = JStr("")
    /\ lastCall.records[5].source = JText("source.name", 5)

\* C13 as the spec states it: the GET of get_weather carries the weather API key
\* and q = the zip code of the deps whenever they hold one, "auto:ip" when they
\* hold none; the GET of get_headlines carries the caller's country, "us" when
\* the caller gave none.
C13_QueryParameters ==
    Issued(lastCall) =>
        IF News(lastCall)
        THEN lastCall.requests[1].country =
                 (IF lastCall.given = None THEN "us" ELSE lastCall.given[1])
        ELSE /\ lastCall.requests[1].key = lastCall.deps.weather_api_key
             /\ lastCall.requests[1].q =
                    (IF lastCall.deps.zip_code = None THEN "auto:ip"
                     ELSE lastCall.deps.zip_code[1])

\* C13, amended: each fetcher issues one GET; get_weather's carries the weather
\* API key and q = the zip code of the deps when that is a non-empty string,
\* "auto:ip" when the deps hold no zip code or an empty one; get_headlines'
\* carries the news API key and the caller's country, "us" when none was given.
C13_QueryParametersNonEmptyZip ==
    Issued(lastCall) =>
        /\ Len(lastCall.requests) = 1
        /\ IF News(lastCall)
           THEN /\ lastCall.requests[1].country =
                       (IF lastCall.given = None THEN "us" ELSE lastCall.given[1])
                /\ lastCall.requests[1].apiKey = lastCall.deps.news_api_key
           ELSE /\ lastCall.requests[1].key = lastCall.deps.weather_api_key
                /\ lastCall.requests[1].q =
                       (IF lastCall.deps.zip_code \in {None, Some("")} THEN "auto:ip"
                        ELSE lastCall.deps.zip_code[1])

C13_Witness ==
    /\ lastCall.tool = "get_weather"
    /\ Issued(lastCall)
    /\ lastCall.deps.zip_code = Some("")
    /\ lastCall.deps.weather_api_key = "key"
    /\ lastCall.requests[1].q = "auto:ip"
    /\ lastCall.requests[1].key = "key"

\* A step in which request(prompt) is called.
Requested ==
    /\ Len(turns') = Len(turns) + 1
    /\ turns'[Len(turns')].prompt.kind = "request"

\* C14: the synchronous request never changes the history, whether the model
\* call returns or raises: the history after the call is the history before it,
\* wherever the call falls among the turns, and no message of a request is ever
\* in the history.
C14_RequestKeepsHistory ==
    /\ [](\A t \in DOMAIN turns :
            turns[t].prompt.kind = "request" =>
                \A i \in DOMAIN message_history : message_history[i].turn # t)
    /\ [][Requested => message_history' = message_history]_vars

C14_Witness ==
    /\ Len(turns) = 2
    /\ turns[1].prompt.kind = "chat"
    /\ turns[1].status = "done"
    /\ turns[2].prompt.kind = "request"
    /\ turns[2].status = "returned"
    /\ message_history = turns[1].new

\* C15: needs_zip_code is true exactly when no zip code is stored. It never
\* raises; it returns TRUE exactly when the config the manager holds after the
\* call has no zip code, which for a manager that had loaded nothing is the
\* file's: TRUE when there is no file. After an update_zip_code(z) that returned,
\* for every z, the empty string included, the manager holds a zip code, the next
\* needs_zip_code returns FALSE, and the file gives a zip code to a manager
\* created then, whose needs_zip_code is FALSE as well.
C15_NeedsZipCode ==
    /\ [](lastOp.op = "needs_zip_code" =>
            /\ ~lastOp.raised
            /\ lastOp.ret = (_config[1].zip_code = None)
            /\ ~lastOp.cached =>
                  /\ lastOp.ret = (ReadConfigFile(config_file).config.zip_code = None)
                  /\ config_file = None => lastOp.ret = TRUE)
    /\ []((lastOp.op = "update_zip_code" /\ ~lastOp.raised) =>
            /\ _config[1].zip_code # None
            /\ ReadConfigFile(config_file).config.zip_code # None)
    /\ [][(lastOp.op = "update_zip_code" /\ ~lastOp.raised
              /\ lastOp'.op = "needs_zip_code") => lastOp'.ret = FALSE]_vars

C15_Witness ==
    /\ lastOp.op = "needs_zip_code"
    /\ ~lastOp.cached
    /\ lastOp.ret = FALSE
    /\ config_file = Some(<<ZipLine("")>>)

ReadOps == {"load_config", "get_zip_code", "needs_zip_code"}

\* C16: reads are idempotent and write nothing. A load_config, get_zip_code or
\* needs_zip_code step leaves the config file and its directory as they are and,
\* once the manager holds a config, leaves that config as it is; load_config
\* returns the config the manager holds; so two load_config calls with no save
\* or update between them return equal configs, and a load_config right after
\* another returns what the first returned.
C16_ReadsIdempotent ==
    /\ [](lastOp.op = "load_config" => _config = Some(lastOp.ret))
    /\ [][lastOp'.op \in ReadOps =>
            /\ config_file' = config_file
            /\ config_dir' = config_dir
            /\ _config # None => _config' = _config
            /\ (lastOp.op = "load_config" /\ lastOp'.op = "load_config") =>
                  lastOp'.ret = lastOp.ret]_vars

C16_Witness ==
    /\ lastOp.op = "load_config"
    /\ lastOp.cached
    /\ lastOp.ret = UserConfig(Some("10001"))
    /\ config_file = None
    /\ ~config_dir

IsPrefix(s, t) == Len(s) <= Len(t) /\ SubSeq(t, 1, Len(s)) = s

\* C17: the history is append-only: in every step of a session (a request, a
\* request_async turn that begins, calls a tool, succeeds or fails, the
\* briefing, set_zip_code, turns that overlap) the history before the step is a
\* prefix of the history after it.
C17_AppendOnly == [][IsPrefix(message_history, message_history')]_vars

C17_Witness ==
    /\ overlapped
    /\ Len(turns) = 2
    /\ turns[1].prompt.kind = "briefing"
    /\ turns[1].status = "done"
    /\ turns[2].status = "done"
    /\ lastOp.op = "update_zip_code"
    /\ Len(message_history) = Len(turns[1].new) + Len(turns[2].new)

\* A get_weather call that issued its GET and was answered 2xx with a JSON
\* object whose `current` and `location`, when given, are JSON objects.
WeatherSuccess(call) ==
    /\ call.tool = "get_weather"
    /\ Issued(call)
    /\ call.outcome.kind = "response"
    /\ ~Non2xx(call)
    /\ IsObject(call.outcome.body)
    /\ Member(call.outcome.body, "current") => IsObject(call.outcome.body[2]["current"])
    /\ Member(call.outcome.body, "location") => IsObject(call.outcome.body[2]["location"])

\* Field `key` of member `member` of the payload, the empty string when the
\* payload has no such member or the member no such field.
PayloadField(call, member, key) ==
    IF Member(call.outcome.body, member)
    THEN FieldOrEmpty(call.outcome.body[2][member], key)
    ELSE JStr("")

\* C18: a 2xx, well-formed weather payload gives exactly one record: its title
\* is "Current Weather for <name>, <region>, <country>" with the location's
\* name, region and country as the plain text the payload carries, and its
\* temp_f, humidity and last_updated are those of `current`; each missing field
\* is the empty string.
C18_WeatherRecord ==
    WeatherSuccess(lastCall) =>
        /\ ~lastCall.raised
        /\ Len(lastCall.records) = 1
        /\ DOMAIN lastCall.records[1] = {"title", "temp_f", "humidity", "last_updated"}
        /\ lastCall.records[1].title =
              <<"fstr", "Current Weather for ",
                PayloadField(lastCall, "location", "name"), ", ",
                PayloadField(lastCall, "location", "region"), ", ",
                PayloadField(lastCall, "location", "country")>>
        /\ lastCall.records[1].temp_f = PayloadField(lastCall, "current", "temp_f")
        /\ lastCall.records[1].humidity = PayloadField(lastCall, "current", "humidity")
        /\ lastCall.records[1].last_updated =
              PayloadField(lastCall, "current", "last_updated")

\* How many messages the successful turns 1..n produced.
RECURSIVE ProducedLen(_)
ProducedLen(n) ==
    IF n = 0 THEN 0
    ELSE ProducedLen(n - 1) + (IF turns[n].status = "done" THEN Len(turns[n].new) ELSE 0)

\* Turn t completes successfully in this step.
Completes(t) == Running(t) /\ turns'[t].status = "done"

\* C19: when request_async calls overlap, the step in which a turn completes
\* appends all of the turn's new messages to the end of the history, and no
\* other step changes the history; so the new messages of every successful turn
\* are a contiguous block of the history, the blocks are in the order in which
\* the turns completed, and the history holds nothing else: no message is lost
\* and none lies inside another turn's block.
C19_BlocksInCompletionOrder ==
    /\ [](/\ Len(message_history) = ProducedLen(Len(turns))
          /\ \A t \in DOMAIN turns :
                turns[t].status = "done" =>
                    \E k \in 0..Len(message_history) :
                        /\ k + Len(turns[t].new) <= Len(message_history)
                        /\ SubSeq(message_history, k + 1, k + Len(turns[t].new)) =
                               turns[t].new)
    /\ [][/\ \A t \in DOMAIN turns :
                Completes(t) => message_history' = message_history \o turns'[t].new
          /\ (\A t \in DOMAIN turns : ~Completes(t)) =>
                message_history' = message_history]_vars

C19_Witness ==
    /\ overlapped
    /\ Len(turns) = 2
    /\ \A t \in DOMAIN turns : turns[t].status = "done"
    /\ turns[1].supplied = <<>>
    /\ turns[2].supplied = <<>>
    /\ Len(turns[1].new) > 2
    /\ message_history = turns[2].new \o turns[1].new

\* C20: with one ConfigManager and no other writer, after every load_config and
\* save_config that returned and after every update_zip_code, one whose file
\* write failed included, get_zip_code returns the zip code a ConfigManager
\* created then would load from the file: the cache holds no value that is not
\* in the file.
C20_CacheIsPersisted ==
    (/\ lastOp.op \in {"load_config", "save_config", "update_zip_code"}
     /\ lastOp.raised => lastOp.op = "update_zip_code") =>
        load_config(_config, config_file).config.zip_code =
            ReadConfigFile(config_file).config.zip_code

====
